---- MODULE Spec2Model ----
(***************************************************************************)
(* Playback and recording control of znvis.Visualizer                      *)
(* (src/znvis/visualizer/visualizer.py).                                   *)
(*                                                                         *)
(* Threads: the GUI thread (runs the action handlers registered with       *)
(* add_action and the callables handed to post_to_main_thread, one at a    *)
(* time), any number of playback threads (_run_trajectory) and at most one *)
(* recording thread (_record_trajectory).  Every read or write of a shared *)
(* attribute by a background thread is a step of its own; time.sleep is an *)
(* arbitrary delay.                                                        *)
(***************************************************************************)
EXTENDS Integers, Sequences, FiniteSets

\* ---- bounds of the model ------------------------------------------------
\* number_of_steps ranges over 1..MaxSteps
MaxSteps == 2
\* at most MaxThreads playback threads are alive at once
MaxThreads == 1
\* a playback thread posts only while fewer than MaxQueue callables wait
MaxQueue == 1
\* at most MaxExports recording runs are started
MaxExports == 1
\* a scripted run takes at most MaxScript user actions
MaxScript == 2
\* the assembler alone is given frame files with indices 0 .. MaxFrame
MaxFrame == 11
\* the visualizer is given the particles 1 .. MaxParticles
MaxParticles == 2

VARIABLES
    number_of_steps,        \* self.number_of_steps
    store_run_files,        \* self.store_run_files
    counter,                \* self.counter
    interrupt,              \* self.interrupt
    runPc,                  \* playback threads: program point -> how many are there
    queue,                  \* callables posted to the GUI thread, oldest first
    guiPc,                  \* program point of the GUI thread
    old_state,              \* local of _export_scene
    recPc,                  \* program point of the recording thread
    recRun,                 \* number of recording threads started so far
    update_thread_finished, \* self.update_thread_finished
    save_thread_finished,   \* self.save_thread_finished
    progress,               \* completed count of the rich Progress task
    dirExists,              \* temp_video exists
    frames,                 \* the indices n with a file temp_video/frame_<n>.png
    video,                  \* the ZnVis-Video file
    scene,                  \* per particle name, the geometries the window holds
    sceneWriter,            \* thread that made the last scene call or counter write
    script                  \* the user actions taken so far in a scripted run

vars == <<number_of_steps, store_run_files, counter, interrupt, runPc, queue,
          guiPc, old_state, recPc, recRun, update_thread_finished,
          save_thread_finished, progress, dirExists, frames, video,
          scene, sceneWriter, script>>

\* everything the recording thread and the assembler own
recVars == <<recPc, recRun, update_thread_finished, save_thread_finished,
             progress, dirExists, frames, video>>

RunPCs == {"start", "loop", "check", "exit"}

Steps == 0 .. (number_of_steps - 1)

\* number of playback threads that are alive
Alive == runPc["start"] + runPc["loop"] + runPc["check"] + runPc["exit"]

Move(from, to) == [runPc EXCEPT ![from] = @ - 1, ![to] = @ + 1]

NoVideo == [exists |-> FALSE, frames |-> <<>>]

Callable(k, r) == [kind |-> k, run |-> r]

\* number of callables of kind k posted by recording run r that still wait
Outstanding(k, r) ==
    Cardinality({i \in 1 .. Len(queue) : queue[i] = Callable(k, r)})

\* ---- the window's geometries: Visualizer._draw_particles -----------------
Particles == 1 .. MaxParticles

\* the window before _initialize_particles
EmptyScene == [p \in Particles |-> <<>>]

\* visualizer.add_geometry(name, mesh): the window holds one more geometry
\* under that name; a mesh is named by the step whose mesh_dict entry it is
AddGeometry(sc, p, c) == [sc EXCEPT ![p] = Append(@, c)]

\* visualizer.remove_geometry(name)
RemoveGeometry(sc, p) == [sc EXCEPT ![p] = <<>>]

\* mutant of DrawParticles: every draw is a first draw, nothing is removed
DrawParticlesAddOnly(sc, c, initial) ==
    [p \in Particles |-> AddGeometry(sc, p, c)[p]]

\* lines 262-267 with self.counter = c; the loop treats each particle alone
DrawParticles(sc, c, initial) ==
    [p \in Particles |->
        IF initial
        THEN AddGeometry(sc, p, c)[p]
        ELSE AddGeometry(RemoveGeometry(sc, p), p, c)[p]]

\* ---- construction --------------------------------------------------------
Init ==
    /\ number_of_steps \in 1 .. MaxSteps
    /\ store_run_files \in BOOLEAN
    /\ counter = 0
    /\ interrupt = 0
    /\ runPc = [p \in RunPCs |-> 0]
    /\ queue = <<>>
    /\ guiPc = "idle"
    /\ old_state = 0
    /\ recPc = "none"
    /\ recRun = 0
    /\ update_thread_finished = TRUE
    /\ save_thread_finished = TRUE
    /\ progress = 0
    /\ dirExists = FALSE
    /\ frames = {}
    /\ video = NoVideo
    /\ scene = DrawParticles(EmptyScene, 0, TRUE)
    /\ sceneWriter = "none"
    /\ script = <<>>

\* mutant of UpdateParticles: the counter advances without the wraparound
UpdateParticlesNoWrap(th) ==
    /\ counter' = counter + 1
    /\ scene' = DrawParticles(scene, counter', FALSE)
    /\ sceneWriter' = th

\* mutant of NextCounter: the counter stops at the last step
NextCounterSaturating(c) == IF c = number_of_steps - 1 THEN c ELSE c + 1

\* lines 362-365: the value the counter takes when it holds c
NextCounter(c) == IF c = number_of_steps - 1 THEN 0 ELSE c + 1

\* ---- Visualizer._update_particles and the scene calls --------------------
\* step is None: the counter advances with wraparound; then the particles
\* are redrawn by thread th
UpdateParticles(th) ==
    /\ counter' = NextCounter(counter)
    /\ scene' = DrawParticles(scene, counter', FALSE)
    /\ sceneWriter' = th

\* step is given: lines 361-366 are skipped, so the counter keeps its value;
\* then the particles are redrawn by thread th
UpdateParticlesAt(th, step) ==
    /\ counter' = counter
    /\ scene' = DrawParticles(scene, counter', FALSE)
    /\ sceneWriter' = th

\* vis.export_current_image("temp_video/frame_<counter>.png") by thread th:
\* the file is written (over an older one of that name) if temp_video exists
ExportFrame(th) ==
    /\ frames' = IF dirExists THEN frames \cup {counter} ELSE frames
    /\ sceneWriter' = th
    /\ UNCHANGED scene

\* ---- user actions, run by the GUI thread ---------------------------------
\* "Step" -> _update_particles(vis)
StepBody ==
    /\ guiPc = "idle"
    /\ UpdateParticles("gui")
    /\ UNCHANGED <<number_of_steps, store_run_files, interrupt, runPc, queue,
                   guiPc, old_state, recVars>>

\* _update_particles(step=k), called on the GUI thread
UpdateTo(k) ==
    /\ guiPc = "idle"
    /\ UpdateParticlesAt("gui", k)
    /\ UNCHANGED <<number_of_steps, store_run_files, interrupt, runPc, queue,
                   guiPc, old_state, recVars, script>>

SetStep == \E k \in Steps : UpdateTo(k)

\* _continuous_trajectory: pause a running feed, else start a playback thread
ContinuousTrajectory ==
    IF interrupt = 1
    THEN /\ interrupt' = 0
         /\ UNCHANGED runPc
    ELSE /\ runPc' = [runPc EXCEPT !["start"] = @ + 1]
         /\ UNCHANGED interrupt

\* "Play" -> _continuous_trajectory(vis)
PlayBody ==
    /\ guiPc = "idle"
    /\ ContinuousTrajectory
    /\ UNCHANGED <<number_of_steps, store_run_files, counter, queue, guiPc,
                   old_state, recVars, scene, sceneWriter>>

\* "Export Scene" -> _export_scene(vis), line 199
ExportSceneBody ==
    /\ guiPc = "idle"
    /\ old_state' = interrupt
    /\ guiPc' = "es_clear"
    /\ UNCHANGED <<number_of_steps, store_run_files, counter, interrupt, runPc,
                   queue, recVars, scene, sceneWriter>>

\* _export_scene, line 200
ExportSceneClear ==
    /\ guiPc = "es_clear"
    /\ interrupt' = 0
    /\ guiPc' = "es_write"
    /\ UNCHANGED <<number_of_steps, store_run_files, counter, runPc, queue,
                   old_state, recVars, scene, sceneWriter, script>>

\* mutant of ExportSceneWriteBody: the live feed is toggled whatever the old
\* state was
ExportSceneAlwaysResumes ==
    /\ guiPc = "es_write"
    /\ ContinuousTrajectory
    /\ old_state' = 0
    /\ guiPc' = "idle"
    /\ UNCHANGED <<number_of_steps, store_run_files, counter, queue, recVars,
                   scene, sceneWriter>>

\* _export_scene, lines 201-211: write My_mesh_<counter>.ply (a file nothing
\* reads back), then restart the live feed if it was running; the local
\* old_state ends with the call
ExportSceneWriteBody ==
    /\ guiPc = "es_write"
    /\ IF old_state = 1
       THEN ContinuousTrajectory
       ELSE UNCHANGED <<interrupt, runPc>>
    /\ old_state' = 0
    /\ guiPc' = "idle"
    /\ UNCHANGED <<number_of_steps, store_run_files, counter, queue, recVars,
                   scene, sceneWriter>>

\* "Screenshot" -> _take_screenshot(vis)
Screenshot ==
    /\ guiPc = "idle"
    /\ sceneWriter' = "gui"
    /\ UNCHANGED scene
    /\ UNCHANGED <<number_of_steps, store_run_files, counter, interrupt, runPc,
                   queue, guiPc, old_state, recVars, script>>

\* "Export Video" -> _export_video(vis): os.mkdir raises when temp_video exists
ExportVideoBody ==
    /\ guiPc = "idle"
    /\ interrupt' = 0
    /\ IF dirExists
       THEN UNCHANGED recVars
       ELSE /\ dirExists' = TRUE
            /\ frames' = {}
            /\ recPc' = "init"
            /\ recRun' = recRun + 1
            /\ UNCHANGED <<update_thread_finished, save_thread_finished,
                           progress, video>>
    /\ UNCHANGED <<number_of_steps, store_run_files, counter, runPc, queue,
                   guiPc, old_state, scene, sceneWriter>>

\* the user actions of the unscripted program, within the bounds
Step == StepBody /\ UNCHANGED script

Play ==
    /\ interrupt = 0 => Alive < MaxThreads
    /\ PlayBody
    /\ UNCHANGED script

ExportScene == ExportSceneBody /\ UNCHANGED script

ExportSceneWrite ==
    /\ (old_state = 1 /\ interrupt = 0) => Alive < MaxThreads
    /\ ExportSceneWriteBody
    /\ UNCHANGED script

ExportVideo ==
    /\ ~dirExists => recRun < MaxExports
    /\ ExportVideoBody
    /\ UNCHANGED script

\* ---- callables posted to the GUI thread ----------------------------------
\* _update_particles posted by a playback thread
GuiRunUpdate ==
    /\ guiPc = "idle"
    /\ queue # <<>>
    /\ Head(queue).kind = "update"
    /\ queue' = Tail(queue)
    /\ UpdateParticles("gui")
    /\ UNCHANGED <<number_of_steps, store_run_files, interrupt, runPc, guiPc,
                   old_state, recVars, script>>

\* update_callable of _record_trajectory
GuiRunAdvance ==
    /\ guiPc = "idle"
    /\ queue # <<>>
    /\ Head(queue).kind = "advance"
    /\ queue' = Tail(queue)
    /\ UpdateParticles("gui")
    /\ update_thread_finished' = TRUE
    /\ UNCHANGED <<number_of_steps, store_run_files, interrupt, runPc, guiPc,
                   old_state, recPc, recRun, save_thread_finished, progress,
                   dirExists, frames, video, script>>

\* save_callable of _record_trajectory
GuiRunSave ==
    /\ guiPc = "idle"
    /\ queue # <<>>
    /\ Head(queue).kind = "save"
    /\ queue' = Tail(queue)
    /\ ExportFrame("gui")
    /\ save_thread_finished' = TRUE
    /\ UNCHANGED <<number_of_steps, store_run_files, counter, interrupt, runPc,
                   guiPc, old_state, recPc, recRun, update_thread_finished,
                   progress, dirExists, video, script>>

\* ---- playback thread: Visualizer._run_trajectory -------------------------
\* line 334
RunStart ==
    /\ runPc["start"] > 0
    /\ interrupt' = 1
    /\ runPc' = Move("start", "loop")
    /\ UNCHANGED <<number_of_steps, store_run_files, counter, queue, guiPc,
                   old_state, recVars, scene, sceneWriter, script>>

\* mutant of RunPost: the playback thread calls _update_particles itself
\* instead of posting it
RunPostDirect ==
    /\ runPc["loop"] > 0
    /\ IF counter < number_of_steps
       THEN /\ UpdateParticles("playback")
            /\ runPc' = Move("loop", "check")
       ELSE /\ runPc' = Move("loop", "exit")
            /\ UNCHANGED <<counter, scene, sceneWriter>>
    /\ UNCHANGED <<number_of_steps, store_run_files, interrupt, queue, guiPc,
                   old_state, recVars, script>>

\* lines 335-339: loop test, sleep, post _update_particles
RunPost ==
    /\ runPc["loop"] > 0
    /\ IF counter < number_of_steps
       THEN /\ Len(queue) < MaxQueue
            /\ queue' = Append(queue, Callable("update", 0))
            /\ runPc' = Move("loop", "check")
       ELSE /\ runPc' = Move("loop", "exit")
            /\ UNCHANGED queue
    /\ UNCHANGED <<number_of_steps, store_run_files, counter, interrupt, guiPc,
                   old_state, recVars, scene, sceneWriter, script>>

\* mutant of RunCheck: the loop does not look at the flag after posting
RunCheckIgnoresFlag ==
    /\ runPc["check"] > 0
    /\ runPc' = Move("check", "loop")
    /\ UNCHANGED <<number_of_steps, store_run_files, counter, interrupt, queue,
                   guiPc, old_state, recVars, scene, sceneWriter, script>>

\* lines 341-342
RunCheck ==
    /\ runPc["check"] > 0
    /\ runPc' = IF interrupt = 0 THEN Move("check", "exit")
                                 ELSE Move("check", "loop")
    /\ UNCHANGED <<number_of_steps, store_run_files, counter, interrupt, queue,
                   guiPc, old_state, recVars, scene, sceneWriter, script>>

\* mutant of RunExit: the thread ends with the state written as RUNNING
RunExitRunning ==
    /\ runPc["exit"] > 0
    /\ interrupt' = 1
    /\ runPc' = [runPc EXCEPT !["exit"] = @ - 1]
    /\ UNCHANGED <<number_of_steps, store_run_files, counter, queue, guiPc,
                   old_state, recVars, scene, sceneWriter, script>>

\* line 344, after which the thread ends
RunExit ==
    /\ runPc["exit"] > 0
    /\ interrupt' = 0
    /\ runPc' = [runPc EXCEPT !["exit"] = @ - 1]
    /\ UNCHANGED <<number_of_steps, store_run_files, counter, queue, guiPc,
                   old_state, recVars, scene, sceneWriter, script>>

\* ---- recording thread: Visualizer._record_trajectory ---------------------
\* lines 287-288 and 304-305
RecInit ==
    /\ recPc = "init"
    /\ update_thread_finished' = TRUE
    /\ save_thread_finished' = TRUE
    /\ progress' = 0
    /\ recPc' = "tick"
    /\ UNCHANGED <<number_of_steps, store_run_files, counter, interrupt, runPc,
                   queue, guiPc, old_state, recRun, dirExists, frames, video,
                   scene, sceneWriter, script>>

\* lines 307-315: the loop is entered while the task is unfinished; after the
\* sleep a capture is posted when both flags are set
RecTickSave ==
    /\ recPc = "tick"
    /\ progress < number_of_steps
    /\ IF save_thread_finished /\ update_thread_finished
       THEN /\ save_thread_finished' = FALSE
            /\ queue' = Append(queue, Callable("save", recRun))
            /\ progress' = progress + 1
       ELSE UNCHANGED <<save_thread_finished, queue, progress>>
    /\ recPc' = "tick317"
    /\ UNCHANGED <<number_of_steps, store_run_files, counter, interrupt, runPc,
                   guiPc, old_state, recRun, update_thread_finished, dirExists,
                   frames, video, scene, sceneWriter, script>>

\* lines 317-321: an advance is posted when the advance flag is set
RecTickUpdate ==
    /\ recPc = "tick317"
    /\ IF update_thread_finished
       THEN /\ update_thread_finished' = FALSE
            /\ queue' = Append(queue, Callable("advance", recRun))
       ELSE UNCHANGED <<update_thread_finished, queue>>
    /\ recPc' = "tick"
    /\ UNCHANGED <<number_of_steps, store_run_files, counter, interrupt, runPc,
                   guiPc, old_state, recRun, save_thread_finished, progress,
                   dirExists, frames, video, scene, sceneWriter, script>>

\* lines 307 and 323: progress.finished ends the loop, and time.sleep(1)
\* returns after some delay
RecLeaveLoop ==
    /\ recPc = "tick"
    /\ progress >= number_of_steps
    /\ recPc' = "movie"
    /\ UNCHANGED <<number_of_steps, store_run_files, counter, interrupt, runPc,
                   queue, guiPc, old_state, recRun, update_thread_finished,
                   save_thread_finished, progress, dirExists, frames, video,
                   scene, sceneWriter, script>>

\* ---- Visualizer._create_movie -------------------------------------------
\* A file name is the sequence of the character codes of its characters.
\* "temp_video/frame_" and ".png" of line 301
FramePrefix ==
    <<116, 101, 109, 112, 95, 118, 105, 100, 101, 111, 47,
      102, 114, 97, 109, 101, 95>>

FrameSuffix == <<46, 112, 110, 103>>

\* the decimal digits of n, as the f-string of line 301 formats self.counter
RECURSIVE Digits(_)
Digits(n) ==
    IF n < 10 THEN <<48 + n>>
    ELSE Digits(n \div 10) \o <<48 + (n % 10)>>

\* f"temp_video/frame_{n}.png"
FrameName(n) == FramePrefix \o Digits(n) \o FrameSuffix

IsDigit(c) == c \in 48 .. 57

\* re.search(r"\d+", s).group(): the leftmost maximal run of digits of s
FirstDigits(s) ==
    LET first == CHOOSE i \in 1 .. Len(s) :
                     IsDigit(s[i]) /\ \A j \in 1 .. (i - 1) : ~IsDigit(s[j])
        last  == CHOOSE i \in first .. Len(s) :
                     /\ \A j \in first .. i : IsDigit(s[j])
                     /\ (i = Len(s) \/ ~IsDigit(s[i + 1]))
    IN  SubSeq(s, first, last)

\* int(d) of a string of decimal digits
RECURSIVE ToInt(_)
ToInt(d) ==
    IF d = <<>> THEN 0
    ELSE 10 * ToInt(SubSeq(d, 1, Len(d) - 1)) + (d[Len(d)] - 48)

\* the sort key of line 168
ImageKey(s) == ToInt(FirstDigits(s))

\* glob.glob("temp_video/*.png"): the names of the frame files
Images == {FrameName(n) : n \in frames}

\* a precedes b in the order of Python strings
LexLess(a, b) ==
    \E i \in 1 .. (Len(a) + 1) :
        /\ i <= Len(b)
        /\ \A j \in 1 .. (i - 1) : a[j] = b[j]
        /\ (i = Len(a) + 1 \/ a[i] < b[i])

\* mutant of SortImages: sorted(images) without the key, the order of the
\* names themselves
RECURSIVE SortImagesLexical(_)
SortImagesLexical(S) ==
    IF S = {} THEN <<>>
    ELSE LET m == CHOOSE x \in S : \A y \in S \ {x} : LexLess(x, y)
         IN  <<m>> \o SortImagesLexical(S \ {m})

\* sorted(images, key=...): ascending in the number embedded in the name
RECURSIVE SortImages(_)
SortImages(S) ==
    IF S = {} THEN <<>>
    ELSE LET m == CHOOSE x \in S : \A y \in S : ImageKey(x) <= ImageKey(y)
         IN  <<m>> \o SortImages(S \ {m})

\* cv2.imread(s): the picture in file s, named by the step it shows
ImRead(s) == CHOOSE n \in frames : FrameName(n) = s

\* lines 177-178: the pictures of the files in the order of the list
WriteVideo(images) == [i \in 1 .. Len(images) |-> ImRead(images[i])]

\* mutant of CreateMovie: the writer is opened before the first image is
\* read, so an empty directory yields an empty video
CreateMovieOpensFirst ==
    /\ recPc = "movie"
    /\ recPc' = "done"
    /\ video' = [exists |-> TRUE, frames |-> WriteVideo(SortImages(Images))]
    /\ IF store_run_files
       THEN UNCHANGED <<dirExists, frames>>
       ELSE /\ dirExists' = FALSE
            /\ frames' = {}
    /\ progress' = 0
    /\ UNCHANGED <<number_of_steps, store_run_files, counter, interrupt, runPc,
                   queue, guiPc, old_state, recRun, update_thread_finished,
                   save_thread_finished, scene, sceneWriter, script>>

\* lines 165-184, run by the recording thread: images[0] raises on an empty
\* list before the writer is opened; otherwise the frames are written in
\* order and temp_video is removed unless store_run_files; the thread and
\* its Progress object end here
CreateMovie ==
    /\ recPc = "movie"
    /\ IF Images = {}
       THEN /\ recPc' = "failed"
            /\ UNCHANGED <<video, dirExists, frames>>
       ELSE /\ recPc' = "done"
            /\ video' = [exists |-> TRUE, frames |-> WriteVideo(SortImages(Images))]
            /\ IF store_run_files
               THEN UNCHANGED <<dirExists, frames>>
               ELSE /\ dirExists' = FALSE
                    /\ frames' = {}
    /\ progress' = 0
    /\ UNCHANGED <<number_of_steps, store_run_files, counter, interrupt, runPc,
                   queue, guiPc, old_state, recRun, update_thread_finished,
                   save_thread_finished, scene, sceneWriter, script>>

\* ---- the program ---------------------------------------------------------
Next ==
    \/ Step
    \/ SetStep
    \/ Play
    \/ ExportScene
    \/ ExportSceneClear
    \/ ExportSceneWrite
    \/ Screenshot
    \/ ExportVideo
    \/ GuiRunUpdate
    \/ GuiRunAdvance
    \/ GuiRunSave
    \/ RunStart
    \/ RunPost
    \/ RunCheck
    \/ RunExit
    \/ RecInit
    \/ RecTickSave
    \/ RecTickUpdate
    \/ RecLeaveLoop
    \/ CreateMovie

Spec == Init /\ [][Next]_vars

\* ---- dispatcher stall: the GUI thread never runs a callable posted by
\* _record_trajectory (update_callable, save_callable); everything else runs
NextStall ==
    \/ Step
    \/ SetStep
    \/ Play
    \/ ExportScene
    \/ ExportSceneClear
    \/ ExportSceneWrite
    \/ Screenshot
    \/ ExportVideo
    \/ GuiRunUpdate
    \/ RunStart
    \/ RunPost
    \/ RunCheck
    \/ RunExit
    \/ RecInit
    \/ RecTickSave
    \/ RecTickUpdate
    \/ RecLeaveLoop
    \/ CreateMovie

SpecStall == Init /\ [][NextStall]_vars

\* ---- the assembler alone: _create_movie on a directory of frame files ----
InitSort ==
    /\ number_of_steps = MaxFrame + 1
    /\ store_run_files \in BOOLEAN
    /\ counter = 0
    /\ interrupt = 0
    /\ runPc = [p \in RunPCs |-> 0]
    /\ queue = <<>>
    /\ guiPc = "idle"
    /\ old_state = 0
    /\ recPc = "movie"
    /\ recRun = 1
    /\ update_thread_finished = TRUE
    /\ save_thread_finished = TRUE
    /\ progress = number_of_steps
    /\ dirExists = TRUE
    /\ frames \in SUBSET (0 .. MaxFrame)
    /\ video = NoVideo
    /\ scene = DrawParticles(EmptyScene, 0, TRUE)
    /\ sceneWriter = "gui"
    /\ script = <<>>

NextSort == CreateMovie

SpecSort == InitSort /\ [][NextSort]_vars

\* ---- scripted runs: at most MaxScript user actions, fair threads ---------
ScriptPlay ==
    /\ Len(script) < MaxScript
    /\ PlayBody
    /\ script' = Append(script, "play")

ScriptExportScene ==
    /\ Len(script) < MaxScript
    /\ ExportSceneBody
    /\ script' = Append(script, IF interrupt = 1 THEN "scene_running"
                                                 ELSE "scene_stopped")

ScriptExportSceneWrite == ExportSceneWriteBody /\ UNCHANGED script

ScriptExportVideo ==
    /\ Len(script) < MaxScript
    /\ ExportVideoBody
    /\ script' = Append(script, "video")

NextScript ==
    \/ ScriptPlay
    \/ ScriptExportScene
    \/ ExportSceneClear
    \/ ScriptExportSceneWrite
    \/ ScriptExportVideo
    \/ GuiRunUpdate
    \/ GuiRunAdvance
    \/ GuiRunSave
    \/ RunStart
    \/ RunPost
    \/ RunCheck
    \/ RunExit
    \/ RecInit
    \/ RecTickSave
    \/ RecTickUpdate
    \/ RecLeaveLoop
    \/ CreateMovie

\* every started thread keeps being scheduled, and the GUI event loop keeps
\* running handlers to their end and posted callables
Fairness ==
    /\ WF_vars(ExportSceneClear)
    /\ WF_vars(ScriptExportSceneWrite)
    /\ WF_vars(GuiRunUpdate)
    /\ WF_vars(GuiRunAdvance)
    /\ WF_vars(GuiRunSave)
    /\ WF_vars(RunStart)
    /\ WF_vars(RunPost)
    /\ WF_vars(RunCheck)
    /\ WF_vars(RunExit)
    /\ WF_vars(RecInit)
    /\ WF_vars(RecTickSave)
    /\ WF_vars(RecTickUpdate)
    /\ WF_vars(RecLeaveLoop)
    /\ WF_vars(CreateMovie)

FairScript == Init /\ [][NextScript]_vars /\ Fairness

TypeOK ==
    /\ number_of_steps \in 1 .. MaxSteps
    /\ counter \in Nat
    /\ interrupt \in {0, 1}
    /\ guiPc \in {"idle", "es_clear", "es_write"}
    /\ recPc \in {"none", "init", "tick", "tick317", "movie", "done", "failed"}
    /\ recRun \in Nat
    /\ (~dirExists) => recPc \in {"none", "done"}

\* ---- properties ----------------------------------------------------------
\* the scripted run so far consists of exactly one Export Video
OneRecording == script = <<"video">>

\* C1: one recording run leaves, once all its captures have run, exactly the
\* frame files 0 .. number_of_steps - 1 in temp_video.
C1_FramesComplete ==
    (OneRecording /\ recPc = "movie" /\ Outstanding("save", 1) = 0)
        => frames = Steps

\* C2: whatever Play toggles and Export Scene actions were taken, at most one
\* playback thread is alive.
C2_OneRunLoop ==
    (\A i \in 1 .. Len(script) : script[i] # "video") => Alive <= 1

\* C3: the step counter always lies in 0 .. number_of_steps - 1.
C3_CounterInRange == counter \in 0 .. (number_of_steps - 1)

\* C3 witness: the counter sits on the last step while a playback thread and
\* a recording thread are advancing it.
C3_Witness ==
    /\ number_of_steps > 1
    /\ counter = number_of_steps - 1
    /\ Alive > 0
    /\ recPc = "tick"
    /\ progress > 0

\* C4: every scene call and every counter write is made by the GUI thread.
C4_SceneOnGuiThread == sceneWriter \in {"none", "gui"}

\* C4 witness: the scene was touched after a playback thread and the
\* recording thread had callables run.
C4_Witness ==
    /\ sceneWriter = "gui"
    /\ runPc["check"] > 0
    /\ frames # {}
    /\ counter > 0

\* C5: while a recording thread runs, at most one of its capture callables
\* and at most one of its advance callables wait for the GUI thread.
C5_OneOutstanding ==
    recPc \in {"init", "tick", "tick317"}
        => /\ Outstanding("save", recRun) <= 1
           /\ Outstanding("advance", recRun) <= 1

\* C6: after Play then Play (pause) the program eventually is STOPPED with no
\* playback thread alive.
C6_PlayPauseStops ==
    (script = <<"play", "play">>) ~> (interrupt = 0 /\ Alive = 0)

\* C7: after Play and an Export Scene begun while RUNNING, playback is resumed
\* for good: once the handler has returned, no further user action is taken
\* and a playback thread stays alive (the program cannot settle in STOPPED).
C7_ExportSceneResumes ==
    (script = <<"play", "scene_running">> /\ guiPc = "idle") => Alive >= 1

\* C8: when the recording thread starts the assembly, none of its capture
\* callables is still waiting.
C8_AssemblyAfterCaptures ==
    recPc = "movie" => Outstanding("save", recRun) = 0

\* C9: after a successful assembly temp_video is gone iff store_run_files is
\* not set, and with store_run_files it holds number_of_steps frame files.
C9_RetentionKeepsFrames ==
    (OneRecording /\ recPc = "done" /\ Outstanding("save", 1) = 0)
        => /\ dirExists <=> store_run_files
           /\ store_run_files => Cardinality(frames) = number_of_steps

\* C10: an assembly that finds no frame image fails and leaves the video
\* file as it was.
C10_EmptyAssemblyFails ==
    [][(recPc = "movie" /\ frames = {} /\ recPc' # "movie")
           => (recPc' = "failed" /\ video' = video)]_vars

\* C10 witness: an assembly has failed and there is no video file.
C10_Witness ==
    /\ recPc = "failed"
    /\ frames = {}
    /\ ~video.exists

\* the indices in S, ascending
RECURSIVE Ascending(_)
Ascending(S) ==
    IF S = {} THEN <<>>
    ELSE LET n == CHOOSE x \in S : \A y \in S : x <= y
         IN  <<n>> \o Ascending(S \ {n})

\* C11: a successful assembly writes the frame files in ascending order of
\* the index embedded in their names (frame_2 before frame_10).
C11_NumericOrder ==
    [][(recPc = "movie" /\ recPc' = "done")
           => video'.frames = Ascending(frames)]_vars

\* C11 witness: frame_2 and frame_10 were assembled, in this order.
C11_Witness ==
    /\ recPc = "done"
    /\ video.frames = <<2, 10>>

\* C12: _update_particles with an explicit index k sets the counter to k, and
\* with no index it advances the counter by one with wraparound.
C12_StepSetsCounter ==
    [][/\ \A k \in Steps : UpdateTo(k) => counter' = k
       /\ Step => counter' = (counter + 1) % number_of_steps]_vars

\* C13: an Export Video that fails at os.mkdir (temp_video exists) starts no
\* recording thread and leaves a RUNNING playback RUNNING.
C13_FailedExportKeepsPlayback ==
    [][(dirExists /\ ExportVideo)
           => /\ UNCHANGED <<recPc, recRun>>
              /\ (interrupt = 1 /\ Alive >= 1) => interrupt' = 1]_vars

\* C14: under a dispatcher stall (no callable of the recording thread is ever
\* run) the recording loop never reaches its target count and the assembly
\* is never started, for every number_of_steps >= 1.
C14_StallNeverAssembles ==
    /\ recPc \notin {"movie", "done", "failed"}
    /\ recPc # "none" => progress < number_of_steps

\* C15: while the run flag is 0 and stays 0, no playback thread comes back to
\* the head of its loop: a thread that was waiting there posts at most one
\* further advance, and a thread that reads the flag after posting leaves the
\* loop for the final assignment that sets the state to STOPPED.
C15_ClearedFlagStopsLoop ==
    [][(interrupt = 0 /\ interrupt' = 0)
           => /\ runPc'["loop"] <= runPc["loop"]
              /\ runPc'["check"] < runPc["check"]
                     => runPc'["exit"] = runPc["exit"] + 1]_vars

\* a playback thread has posted its last advance after Pause cleared the
\* flag, and has left the loop
C15_Witness ==
    /\ interrupt = 0
    /\ runPc["exit"] = 1
    /\ queue # <<>>
    /\ Head(queue).kind = "update"

\* C16: within one recording session every capture is written under an index
\* greater than the index of every capture written before it.
C16_FrameIndexIncreases ==
    [][(GuiRunSave /\ dirExists) => \A f \in frames : f < counter]_vars

\* n advances without an index, applied to counter value c
RECURSIVE Advances(_, _)
Advances(c, n) == IF n = 0 THEN c ELSE Advances(NextCounter(c), n - 1)

\* C17: from every counter value c the program reaches, an advance without
\* an index (a Step click, an advance of the playback loop, an advance of the
\* recording) gives (c + 1) mod number_of_steps, and number_of_steps of them
\* in a row give c again.
C17_AdvanceIsCyclic ==
    /\ NextCounter(counter) = (counter + 1) % number_of_steps
    /\ Advances(counter, number_of_steps) = counter

\* a recording has captured every step and the advance after the last one
\* has wrapped the counter to 0
C17_Witness ==
    /\ number_of_steps > 1
    /\ frames = Steps
    /\ counter = 0
    /\ recPc = "done"

EntryState == IF guiPc = "idle" THEN interrupt ELSE old_state

\* C20: no step of Export Scene and no Screenshot changes the step counter,
\* and an Export Scene entered with the run flag at 0 starts no playback
\* thread and never writes 1 to the run flag.
C20_ExportsKeepCounterAndState ==
    [][/\ (guiPc' # guiPc \/ Screenshot) => counter' = counter
       /\ (guiPc' # guiPc /\ EntryState = 0)
              => /\ runPc' = runPc
                 /\ interrupt' = 1 => interrupt = 1]_vars

\* Export Scene, entered while playback was STOPPED at step 1, has read and
\* cleared the flag and is about to write the mesh file
C20_Witness ==
    /\ guiPc = "es_write"
    /\ old_state = 0
    /\ interrupt = 0
    /\ Alive = 0
    /\ number_of_steps > 1
    /\ counter = 1

====
